---- MODULE Spec2Model ----
(***************************************************************************)
(* A model of the caching, normalisation and logo-resolution layer of the  *)
(* stocks/ETF client: candidateImageUris, mapStock, updateStockImages,     *)
(* fetchData (index.tsx), loadDetails (watchlist.tsx), the debounced       *)
(* search and the 24 h TTL cache behind getCachedTopGainersLosers.         *)
(*                                                                         *)
(* Strings the code inspects character by character (ticker symbols,       *)
(* URLs) are sequences of one-character strings; a URL is the sequence     *)
(* <<prefix>> \o variant \o <<".png">>.                                    *)
(***************************************************************************)
EXTENDS Integers, Sequences, FiniteSets, TLC

VARIABLES
    \* candidateImageUris applied to one symbol
    sym, uris, urisPc,
    \* mapStock applied to one raw record
    raw, stock, mapPc,
    \* the TTL cache: wall clock (ms), stored entries, the getOrFetch call per key
    now, cache, go,
    \* ExploreScreen: position of fetchData, its locals and the screen's state
    hPc, loading, error, gainers, losers, gainersRaw, losersRaw, gainersWithImages,
    \* one Promise.all batch: which code issued it, its input items, the
    \* cached snapshot loadDetails looked prices up in, its members, its outcome
    bKind, bInput, bCached, bMembers, bPc, bResult,
    \* the search: SearchContext, ExploreScreen's search state, the debounce
    \* timer, the searchTicker calls awaited, and two stopwatches: time since
    \* searchValue last changed, calls issued since the effects last ran
    searchValue, showSearch, searchResults, searchLoading, searchError,
    debounced, inflight, quiet, issued,
    \* WatchlistScreen: the value persisted under WATCHLIST_GROUPS, the
    \* screen's groups and selectedGroup, the position of loadGroups, the
    \* confirmation dialog, the confirmed deletions still running, and what
    \* the runtime did with the last rejected deletion; the stocks shown for
    \* the selected group and the loadDetails runs still awaited
    stored, groups, selectedGroup, loadPc, alert, pending, rejection,
    selectedStocks, loads,
    \* one StockLogo: its candidates (shown), which of them load, and its state
    shown, loadable, idx, failed

urisVars == <<sym, uris, urisPc>>
mapVars == <<raw, stock, mapPc>>
cacheVars == <<now, cache, go>>
homeVars == <<hPc, loading, error, gainers, losers, gainersRaw, losersRaw, gainersWithImages>>
batchVars == <<bKind, bInput, bCached, bMembers, bPc, bResult>>
searchVars == <<searchValue, showSearch, searchResults, searchLoading, searchError,
                debounced, inflight, quiet, issued>>
watchVars == <<stored, groups, selectedGroup, loadPc, alert, pending, rejection,
              selectedStocks, loads>>
logoVars == <<shown, loadable, idx, failed>>

vars == <<urisVars, mapVars, cacheVars, homeVars, batchVars, searchVars, watchVars, logoVars>>

\* What an action of one group leaves alone.
notUrisVars == <<mapVars, cacheVars, homeVars, batchVars, searchVars, watchVars, logoVars>>
notMapVars == <<urisVars, cacheVars, homeVars, batchVars, searchVars, watchVars, logoVars>>
notCacheVars == <<urisVars, mapVars, homeVars, batchVars, searchVars, watchVars, logoVars>>
notHomeVars == <<urisVars, mapVars, batchVars, searchVars, watchVars, logoVars>>
notBatchVars == <<urisVars, mapVars, cacheVars, homeVars, searchVars, watchVars, logoVars>>
notSearchVars == <<urisVars, mapVars, cacheVars, homeVars, batchVars, watchVars, logoVars>>
notWatchVars == <<urisVars, mapVars, cacheVars, homeVars, batchVars, searchVars, logoVars>>
notLogoVars == <<urisVars, mapVars, cacheVars, homeVars, batchVars, searchVars, watchVars>>

(***************************************************************************)
(* Bounds of the model.                                                    *)
(***************************************************************************)
MaxSymLen == 5
MaxHours == 26
MaxRecords == 5
BatchSize == 2
MaxInflight == 2
MaxPending == 2
MaxLoads == 2

(***************************************************************************)
(* String helpers (JavaScript String methods used by the code).            *)
(***************************************************************************)
Alphabet == {"a", "B", ".", "-"}

RECURSIVE SeqsUpTo(_, _)
SeqsUpTo(S, n) ==
    IF n = 0 THEN {<<>>}
    ELSE LET shorter == SeqsUpTo(S, n - 1)
         IN shorter \cup {Append(t, c) : t \in {u \in shorter : Len(u) = n - 1}, c \in S}

\* String.prototype.toUpperCase on one character.
upperChar(c) ==
    CASE c = "a" -> "A"
      [] c = "b" -> "B"
      [] c = "r" -> "R"
      [] c = "k" -> "K"
      [] OTHER -> c

toUpperCase(s) == [i \in 1..Len(s) |-> upperChar(s[i])]

\* s.replace(/from/g, to): every occurrence is replaced.
replaceAll(s, from, to) == [i \in 1..Len(s) |-> IF s[i] = from THEN to ELSE s[i]]

\* s.split(sep)[0]: the part before the first sep, all of s when there is none.
splitFirst(s, sep) ==
    LET at == {i \in 1..Len(s) : s[i] = sep}
    IN IF at = {} THEN s
       ELSE SubSeq(s, 1, (CHOOSE i \in at : \A j \in at : i <= j) - 1)

\* .filter(Boolean) on an array of strings: the empty string is falsy.
filterBoolean(a) == SelectSeq(a, LAMBDA v : v # <<>>)

\* Array.from(new Set(a)): insertion order, first occurrence kept.
arrayFromSet(a) ==
    LET keep == {i \in 1..Len(a) : \A j \in 1..(i - 1) : a[j] # a[i]}
    IN [k \in 1..Cardinality(keep) |->
           a[CHOOSE i \in keep : Cardinality({j \in keep : j <= i}) = k]]

\* `https://financialmodelingprep.com/image-stock/${v}.png`
fmpImageUrl(v) == <<"https://financialmodelingprep.com/image-stock/">> \o v \o <<".png">>

\* The five variants in the order the array literal lists them, before filtering.
symbolVariants(s) ==
    << s, replaceAll(s, ".", "-"), replaceAll(s, "-", "."), splitFirst(s, "."), splitFirst(s, "-") >>

\* Mutant: the variants are not de-duplicated (the Set is dropped).
candidateImageUris_NoSet(symbol) ==
    IF symbol = <<>> THEN <<>>
    ELSE LET s == toUpperCase(symbol)
             variants == filterBoolean(symbolVariants(s))
         IN [i \in 1..Len(variants) |-> fmpImageUrl(variants[i])]

candidateImageUris(symbol) ==
    IF symbol = <<>> THEN <<>>
    ELSE LET s == toUpperCase(symbol)
             variants == arrayFromSet(filterBoolean(symbolVariants(s)))
         IN [i \in 1..Len(variants) |-> fmpImageUrl(variants[i])]

(***************************************************************************)
(* mapStock: raw upstream record -> Stock.  A raw record is a function     *)
(* from the fields it has to their values; a missing field is undefined.   *)
(***************************************************************************)
RawFields == {"name", "symbol", "ticker", "price", "close", "change"}
RawValues == {<<>>, <<"a">>, <<"B">>}
RawRecords == UNION {[D -> RawValues] : D \in SUBSET RawFields}

Placeholder == <<"placeholder">>

\* s.f is truthy: present and not the empty string.
truthy(s, f) == f \in DOMAIN s /\ s[f] # <<>>

\* s.f1 || s.f2 || ... || ""
RECURSIVE orChain(_, _)
orChain(s, fields) ==
    IF fields = <<>> THEN <<>>
    ELSE IF truthy(s, Head(fields)) THEN s[Head(fields)]
    ELSE orChain(s, Tail(fields))

\* Mutant: symbol uses the name's fallback order (name, symbol, ticker).
mapStock_NameOrder(s) ==
    [ name |-> orChain(s, <<"name", "symbol", "ticker">>),
      price |-> orChain(s, <<"price", "close">>),
      symbol |-> orChain(s, <<"name", "symbol", "ticker">>),
      image |-> Placeholder,
      change |-> orChain(s, <<"change">>) ]

mapStock(s) ==
    [ name |-> orChain(s, <<"name", "symbol", "ticker">>),
      price |-> orChain(s, <<"price", "close">>),
      symbol |-> orChain(s, <<"ticker", "symbol", "name">>),
      image |-> Placeholder,
      change |-> orChain(s, <<"change">>) ]

NoStock == [name |-> <<>>, price |-> <<>>, symbol |-> <<>>, image |-> <<>>, change |-> <<>>]

(***************************************************************************)
(* TTL cache (sections 4.2 and 4.4 of the specification): an entry is      *)
(* {value, fetchedAtEpochMillis}; getOrFetch reads it, returns a fresh     *)
(* value without the fetcher, and otherwise awaits the fetcher.            *)
(***************************************************************************)
HourMillis == 60 * 60 * 1000
TTL_MILLIS == 24 * 60 * 60 * 1000

GainersKey == "gainersLosersCache"
TimeSeriesKey == "av_timeseries_AAPL_daily"
Keys == {GainersKey, TimeSeriesKey}

NoEntry == [present |-> FALSE]
CacheEntry(v, t) == [present |-> TRUE, value |-> v, fetchedAtEpochMillis |-> t]

\* Mutant: the boundary counts as fresh.
isFresh_Inclusive(entry, nowMillis, ttlMillis) == nowMillis - entry.fetchedAtEpochMillis <= ttlMillis

isFresh(entry, nowMillis, ttlMillis) == nowMillis - entry.fetchedAtEpochMillis < ttlMillis

\* The call of getOrFetch on a key: where it stands, what the fetcher did,
\* how often the fetcher was invoked, and what the caller got.
NoValue == [none |-> TRUE]
IdleCall == [pc |-> "idle", fetch |-> "none", fetcherCalls |-> 0, value |-> NoValue]

\* getOrFetch up to its first await: a fresh entry is returned at once.
getOrFetchBegin(entry) ==
    IF entry.present /\ isFresh(entry, now, TTL_MILLIS)
    THEN [pc |-> "returned", fetch |-> "none", fetcherCalls |-> 0, value |-> entry.value]
    ELSE [pc |-> "fetching", fetch |-> "pending", fetcherCalls |-> 1, value |-> NoValue]

\* The fetcher resolved with v: the entry is replaced and v returned.
getOrFetchResolved(call, v) ==
    [call EXCEPT !.pc = "returned", !.fetch = "ok", !.value = v]

\* Mutant: a failed fetch is always rethrown, stale entry or not.
getOrFetchRejected_Rethrow(call, entry) ==
    [call EXCEPT !.pc = "threw", !.fetch = "failed"]

\* The fetcher failed: the stale value if an entry exists, else the failure.
getOrFetchRejected(call, entry) ==
    IF entry.present
    THEN [call EXCEPT !.pc = "returned", !.fetch = "failed", !.value = entry.value]
    ELSE [call EXCEPT !.pc = "threw", !.fetch = "failed"]

CacheIdle == now = 0 /\ cache = [k \in Keys |-> NoEntry] /\ go = [k \in Keys |-> IdleCall]

Tick ==
    \E h \in {1, 23} :
        /\ now + h * HourMillis <= MaxHours * HourMillis
        /\ now' = now + h * HourMillis
        /\ UNCHANGED <<cache, go, notCacheVars>>

GetOrFetchBegin(k) ==
    /\ go[k].pc # "fetching"
    /\ go' = [go EXCEPT ![k] = getOrFetchBegin(cache[k])]
    /\ UNCHANGED <<now, cache, notCacheVars>>

\* The upstream value obtained at time t (a tag naming the fetch).
UpstreamAt(t) == [fetched |-> t]

FetcherResolves(k, v) ==
    /\ go[k].pc = "fetching"
    /\ cache' = [cache EXCEPT ![k] = CacheEntry(v, now)]
    /\ go' = [go EXCEPT ![k] = getOrFetchResolved(go[k], v)]
    /\ UNCHANGED <<now, notCacheVars>>

FetcherRejects(k) ==
    /\ go[k].pc = "fetching"
    /\ go' = [go EXCEPT ![k] = getOrFetchRejected(go[k], cache[k])]
    /\ UNCHANGED <<now, cache, notCacheVars>>

(***************************************************************************)
(* ExploreScreen.fetchData and updateStockImages (index.tsx).              *)
(***************************************************************************)
DisplayCount == 4
LoadFailedMessage == "Failed to load data. Please try again."

\* What Image.prefetch can do: resolve true, resolve false, reject.
ProbeOutcomes == {"ok", "false", "throw"}

\* The loop of updateStockImages over one stock's candidates from index i on,
\* where env gives each URL's probe outcome: the first URL that resolves true
\* becomes the image, a false or a throw moves on, and the stock is returned
\* as it is when no candidate is left.
RECURSIVE probeFrom(_, _, _, _)
probeFrom(s, candidates, i, env) ==
    IF i > Len(candidates) THEN s
    ELSE IF env[candidates[i]] = "ok" THEN [s EXCEPT !.image = candidates[i]]
    ELSE probeFrom(s, candidates, i + 1, env)

\* Promise.all(stocks.map(...)): one result per stock, in the stocks' order.
updateStockImages(stocks, env) ==
    [i \in 1..Len(stocks) |-> probeFrom(stocks[i], candidateImageUris(stocks[i].symbol), 1, env)]

UrlsOf(stocks) ==
    UNION { {candidateImageUris(stocks[i].symbol)[j] : j \in 1..Len(candidateImageUris(stocks[i].symbol))}
            : i \in 1..Len(stocks) }

\* data.top_gainers || []
listOrEmpty(data, f) == IF f \in DOMAIN data THEN data[f] ELSE <<>>

\* Mutant: the list is not cut to the display count.
slice_All(list, from, to) == list

\* list.slice(from, to), from and to counted from 0, to excluded.
slice(list, from, to) ==
    SubSeq(list, from + 1, IF to < Len(list) THEN to ELSE Len(list))

mapAll(list) == [i \in 1..Len(list) |-> mapStock(list[i])]

\* The records upstream ranks: record i of a list has its own price, and the
\* tickers alternate between two symbols.
UpstreamRecord(kind, i) ==
    [ticker |-> IF i % 2 = 1 THEN <<"a">> ELSE <<"B">>, price |-> <<kind, ToString(i)>>]

UpstreamList(kind, n) == [i \in 1..n |-> UpstreamRecord(kind, i)]

\* The snapshots upstream can answer with: both lists, of 0..MaxRecords
\* records each, or an object without the lists.
Snapshots ==
    {[top_gainers |-> UpstreamList("g", n), top_losers |-> UpstreamList("l", m)] :
        n \in 0..MaxRecords, m \in 0..MaxRecords}
    \cup {[Information |-> <<"rate limit">>]}

HomeIdle ==
    /\ hPc = "idle"
    /\ loading = TRUE
    /\ error = ""
    /\ gainers = <<>>
    /\ losers = <<>>
    /\ gainersRaw = <<>>
    /\ losersRaw = <<>>
    /\ gainersWithImages = <<>>

\* fetchData up to `await getCachedTopGainersLosers()`.
FetchDataStart ==
    /\ hPc = "mounted"
    /\ go[GainersKey].pc # "fetching"
    /\ loading' = TRUE
    /\ error' = ""
    /\ go' = [go EXCEPT ![GainersKey] = getOrFetchBegin(cache[GainersKey])]
    /\ hPc' = "getting"
    /\ UNCHANGED <<now, cache, gainers, losers, gainersRaw, losersRaw, gainersWithImages, notHomeVars>>

\* The snapshot arrived: slice, map, and start the gainers' logo batch.
FetchDataGotData ==
    /\ hPc = "getting"
    /\ go[GainersKey].pc = "returned"
    /\ LET data == go[GainersKey].value
       IN /\ gainersRaw' = mapAll(slice(listOrEmpty(data, "top_gainers"), 0, DisplayCount))
          /\ losersRaw' = mapAll(slice(listOrEmpty(data, "top_losers"), 0, DisplayCount))
    /\ hPc' = "gainersImages"
    /\ UNCHANGED <<loading, error, gainers, losers, gainersWithImages, cacheVars, notHomeVars>>

\* `await updateStockImages(gainersRaw)` settled; the losers' batch starts.
FetchDataGainersImages ==
    /\ hPc = "gainersImages"
    /\ \E env \in [UrlsOf(gainersRaw) -> ProbeOutcomes] :
           gainersWithImages' = updateStockImages(gainersRaw, env)
    /\ hPc' = "losersImages"
    /\ UNCHANGED <<loading, error, gainers, losers, gainersRaw, losersRaw, cacheVars, notHomeVars>>

\* `await updateStockImages(losersRaw)` settled: both lists are shown.
FetchDataLosersImages ==
    /\ hPc = "losersImages"
    /\ \E env \in [UrlsOf(losersRaw) -> ProbeOutcomes] :
           losers' = updateStockImages(losersRaw, env)
    /\ gainers' = gainersWithImages
    /\ loading' = FALSE
    /\ hPc' = "done"
    /\ UNCHANGED <<error, gainersRaw, losersRaw, gainersWithImages, cacheVars, notHomeVars>>

\* Mutant: the catch block shows no message.
FetchDataCatch_Silent ==
    /\ hPc = "getting"
    /\ go[GainersKey].pc = "threw"
    /\ error' = ""
    /\ gainers' = <<>>
    /\ losers' = <<>>
    /\ loading' = FALSE
    /\ hPc' = "done"
    /\ UNCHANGED <<gainersRaw, losersRaw, gainersWithImages, cacheVars, notHomeVars>>

\* getCachedTopGainersLosers threw: the catch block.
FetchDataCatch ==
    /\ hPc = "getting"
    /\ go[GainersKey].pc = "threw"
    /\ error' = LoadFailedMessage
    /\ gainers' = <<>>
    /\ losers' = <<>>
    /\ loading' = FALSE
    /\ hPc' = "done"
    /\ UNCHANGED <<gainersRaw, losersRaw, gainersWithImages, cacheVars, notHomeVars>>

(***************************************************************************)
(* The three Promise.all batches: updateStockImages (index.tsx 172-185),   *)
(* prefetchImages (index.tsx 116-136) and loadDetails (watchlist.tsx       *)
(* 74-112).  A member is one call of the async map callback: its item, its *)
(* position, its next candidate, the probes it has awaited, the quote      *)
(* outcome (loadDetails), its price (loadDetails) and its value.           *)
(***************************************************************************)
Undefined == [undefined |-> TRUE]
NoPrice == <<"--">>

Member(item, pc, pos, value) ==
    [item |-> item, pc |-> pc, pos |-> pos, probed |-> <<>>, quoted |-> "none",
     price |-> NoPrice, value |-> value]

Probe(url, outcome) == [url |-> url, outcome |-> outcome]

\* --- updateStockImages ---------------------------------------------------
\* The callback up to its first await: no candidate, the stock is returned.
imageMemberStart(s) ==
    IF candidateImageUris(s.symbol) = <<>>
    THEN Member(s, "fulfilled", 1, s)
    ELSE Member(s, "probing", 1, Undefined)

\* Mutant: `if (ok)` is dropped, the first probe that resolves is taken.
imageMemberAfterProbe_NoOkTest(m, outcome) ==
    LET candidates == candidateImageUris(m.item.symbol)
        probed == Append(m.probed, Probe(candidates[m.pos], outcome))
    IN IF outcome \in {"ok", "false"}
       THEN [m EXCEPT !.pc = "fulfilled", !.probed = probed,
                      !.value = [m.item EXCEPT !.image = candidates[m.pos]]]
       ELSE IF m.pos = Len(candidates)
       THEN [m EXCEPT !.pc = "fulfilled", !.probed = probed, !.value = m.item]
       ELSE [m EXCEPT !.pos = m.pos + 1, !.probed = probed]

\* `await Image.prefetch(url)` settled for the member's current candidate.
imageMemberAfterProbe(m, outcome) ==
    LET candidates == candidateImageUris(m.item.symbol)
        probed == Append(m.probed, Probe(candidates[m.pos], outcome))
    IN IF outcome = "ok"
       THEN [m EXCEPT !.pc = "fulfilled", !.probed = probed,
                      !.value = [m.item EXCEPT !.image = candidates[m.pos]]]
       ELSE IF m.pos = Len(candidates)
       THEN [m EXCEPT !.pc = "fulfilled", !.probed = probed, !.value = m.item]
       ELSE [m EXCEPT !.pos = m.pos + 1, !.probed = probed]

\* --- prefetchImages ------------------------------------------------------
PrefetchLimit == 3

\* item["1. symbol"] || item.symbol
resultSymbol(item) == orChain(item, <<"1. symbol", "symbol">>)

prefetchCount(item) ==
    LET n == Len(candidateImageUris(resultSymbol(item)))
    IN IF n < PrefetchLimit THEN n ELSE PrefetchLimit

\* `if (!symbol) return`, else the first prefetch.
prefetchMemberStart(item) ==
    IF resultSymbol(item) = <<>>
    THEN Member(item, "fulfilled", 1, Undefined)
    ELSE Member(item, "probing", 1, Undefined)

\* Mutant: the inner try/catch is missing, a throwing prefetch rejects the member.
prefetchMemberAfterProbe_NoCatch(m, outcome) ==
    LET probed == Append(m.probed, Probe(candidateImageUris(resultSymbol(m.item))[m.pos], outcome))
    IN IF outcome = "ok" THEN [m EXCEPT !.pc = "fulfilled", !.probed = probed]
       ELSE IF outcome = "throw" THEN [m EXCEPT !.pc = "rejected", !.probed = probed]
       ELSE [m EXCEPT !.pc = "sleeping", !.probed = probed]

\* The prefetch settled: true breaks the loop, false or a throw sleeps 120 ms.
prefetchMemberAfterProbe(m, outcome) ==
    LET probed == Append(m.probed, Probe(candidateImageUris(resultSymbol(m.item))[m.pos], outcome))
    IN IF outcome = "ok" THEN [m EXCEPT !.pc = "fulfilled", !.probed = probed]
       ELSE [m EXCEPT !.pc = "sleeping", !.probed = probed]

\* The 120 ms timer fired: i++ and the loop test.
prefetchMemberAfterSleep(m) ==
    IF m.pos + 1 > prefetchCount(m.item)
    THEN [m EXCEPT !.pc = "fulfilled"]
    ELSE [m EXCEPT !.pc = "probing", !.pos = m.pos + 1]

\* --- loadDetails ---------------------------------------------------------
NoSnapshot == [ok |-> FALSE]
SomeSnapshot(data) == [ok |-> TRUE, data |-> data]

\* A number is written <<"num", digits>>.
isNumber(v) == Len(v) = 2 /\ v[1] = "num"
\* `$${Number(price).toFixed(2)}`
formatDollars(v) == <<"$", v[Len(v)], ".00">>

\* all.find(s => (s.ticker || s.symbol || s.name || '').toUpperCase() === upper)
RECURSIVE findRecord(_, _)
findRecord(all, upper) ==
    IF all = <<>> THEN <<>>
    ELSE IF toUpperCase(orChain(Head(all), <<"ticker", "symbol", "name">>)) = upper
    THEN <<Head(all)>>
    ELSE findRecord(Tail(all), upper)

\* The price the cached snapshot gives for a symbol, '--' when it gives none.
cachedPrice(cached, upper) ==
    IF ~cached.ok THEN NoPrice
    ELSE LET all == listOrEmpty(cached.data, "top_gainers") \o listOrEmpty(cached.data, "top_losers")
             found == findRecord(all, upper)
         IN IF found = <<>> THEN NoPrice
            ELSE LET p == orChain(found[1], <<"price", "close", "last">>)
                 IN IF p = <<>> THEN NoPrice
                    ELSE IF isNumber(p) THEN formatDollars(p)
                    ELSE p

detailsImageUrl(symb) == fmpImageUrl(toUpperCase(symb))

\* Mutant: the quick quote is requested for every symbol.
detailsMemberStart_AlwaysQuote(symb, cached) ==
    [Member(symb, "quoting", 1, Undefined) EXCEPT !.price = cachedPrice(cached, toUpperCase(symb))]

\* The callback up to its first await: the quick quote is requested only when
\* the snapshot gave no price, else the image prefetch is.
detailsMemberStart(symb, cached) ==
    LET price == cachedPrice(cached, toUpperCase(symb))
    IN [Member(symb, IF price = NoPrice THEN "quoting" ELSE "prefetching", 1, Undefined)
           EXCEPT !.price = price]

\* What the quick-quote request can do: answer with a price, answer not ok,
\* answer without a usable price, or fail.
QuoteOutcomes == {"price", "notOk", "noPrice", "throw"}
QuotedPrice == <<"num", "7">>

\* The quote request settled; the image prefetch follows in every case.
detailsAfterQuote(m, outcome) ==
    [m EXCEPT !.pc = "prefetching", !.quoted = outcome,
              !.price = IF outcome = "price" THEN formatDollars(QuotedPrice) ELSE m.price]

\* Mutant: the try/catch around the prefetch is missing.
detailsAfterPrefetch_NoCatch(m, outcome) ==
    LET probed == Append(m.probed, Probe(detailsImageUrl(m.item), outcome))
    IN IF outcome = "throw" THEN [m EXCEPT !.pc = "rejected", !.probed = probed]
       ELSE [m EXCEPT !.pc = "fulfilled", !.probed = probed,
                   !.value = [symbol |-> m.item, image |-> detailsImageUrl(m.item), price |-> m.price]]

\* `try { await Image.prefetch(imageUrl) } catch {}` settled: the entry is returned.
detailsAfterPrefetch(m, outcome) ==
    [m EXCEPT !.pc = "fulfilled",
              !.probed = Append(m.probed, Probe(detailsImageUrl(m.item), outcome)),
              !.value = [symbol |-> m.item, image |-> detailsImageUrl(m.item), price |-> m.price]]

\* --- the batch -----------------------------------------------------------
BatchIdle ==
    /\ bKind = "none"
    /\ bInput = <<>>
    /\ bCached = NoSnapshot
    /\ bMembers = <<>>
    /\ bPc = "idle"
    /\ bResult = <<>>

ImageProbeSettles(i, outcome) ==
    /\ bKind = "updateStockImages"
    /\ bMembers[i].pc = "probing"
    /\ bMembers' = [bMembers EXCEPT ![i] = imageMemberAfterProbe(bMembers[i], outcome)]
    /\ UNCHANGED <<bKind, bInput, bCached, bPc, bResult, notBatchVars>>

PrefetchProbeSettles(i, outcome) ==
    /\ bKind = "prefetchImages"
    /\ bMembers[i].pc = "probing"
    /\ bMembers' = [bMembers EXCEPT ![i] = prefetchMemberAfterProbe(bMembers[i], outcome)]
    /\ UNCHANGED <<bKind, bInput, bCached, bPc, bResult, notBatchVars>>

PrefetchSleepEnds(i) ==
    /\ bKind = "prefetchImages"
    /\ bMembers[i].pc = "sleeping"
    /\ bMembers' = [bMembers EXCEPT ![i] = prefetchMemberAfterSleep(bMembers[i])]
    /\ UNCHANGED <<bKind, bInput, bCached, bPc, bResult, notBatchVars>>

QuoteSettles(i, outcome) ==
    /\ bKind = "loadDetails"
    /\ bMembers[i].pc = "quoting"
    /\ bMembers' = [bMembers EXCEPT ![i] = detailsAfterQuote(bMembers[i], outcome)]
    /\ UNCHANGED <<bKind, bInput, bCached, bPc, bResult, notBatchVars>>

DetailsPrefetchSettles(i, outcome) ==
    /\ bKind = "loadDetails"
    /\ bMembers[i].pc = "prefetching"
    /\ bMembers' = [bMembers EXCEPT ![i] = detailsAfterPrefetch(bMembers[i], outcome)]
    /\ UNCHANGED <<bKind, bInput, bCached, bPc, bResult, notBatchVars>>

\* Promise.all: rejected as soon as a member is, fulfilled with the members'
\* values in input order once every member is fulfilled.
PromiseAllSettles ==
    /\ bPc = "running"
    /\ \/ \E i \in 1..Len(bMembers) : bMembers[i].pc = "rejected"
       \/ \A i \in 1..Len(bMembers) : bMembers[i].pc = "fulfilled"
    /\ IF \E i \in 1..Len(bMembers) : bMembers[i].pc = "rejected"
       THEN bPc' = "rejected" /\ bResult' = <<>>
       ELSE bPc' = "resolved" /\ bResult' = [i \in 1..Len(bMembers) |-> bMembers[i].value]
    /\ UNCHANGED <<bKind, bInput, bCached, bMembers, notBatchVars>>

(***************************************************************************)
(* The search: SearchContext.tsx, the header icon (CustomHeader), and      *)
(* ExploreScreen's debouncedSearch with the two effects that call it.      *)
(* A handler, the render it causes and the effects of that render are one  *)
(* step.                                                                   *)
(***************************************************************************)
DebounceMillis == 400
SearchFailedMessage == "Search failed."

\* What the user can have in the search box.
Texts == {<<>>, <<" ">>, <<"a">>, <<"b">>}

\* How far the clock moves in one step.
TickMillis == {200, 300}

capAt(n, cap) == IF n < cap THEN n ELSE cap

\* The timer of useDebouncedCallback(fn, 400): trailing edge only.
NoTimer == [armed |-> FALSE, args |-> <<>>, elapsed |-> 0]

\* Mutant: a call made while the timer runs replaces the arguments and does
\* not restart the wait.
debouncedSearch_NoRestart(d, query) ==
    IF d.armed THEN [d EXCEPT !.args = query]
    ELSE [armed |-> TRUE, args |-> query, elapsed |-> 0]

\* debouncedSearch(query): the wait starts again with these arguments.
debouncedSearch(d, query) == [armed |-> TRUE, args |-> query, elapsed |-> 0]

\* The overlay-open effect, deps [showSearch, debouncedSearch, searchValue].
overlayOpenEffect(d, show, value) ==
    IF show /\ value # <<>> /\ Len(value) > 0 THEN debouncedSearch(d, value) ELSE d

\* The debounced search effect, deps [searchValue, debouncedSearch].
searchValueEffect(d, value) == debouncedSearch(d, value)

\* The effects of one render, in the order the component declares them; an
\* effect runs when one of its deps changed.
runEffects(d, showChanged, valueChanged, show, value) ==
    LET afterOpen == IF showChanged \/ valueChanged THEN overlayOpenEffect(d, show, value) ELSE d
    IN IF valueChanged THEN searchValueEffect(afterOpen, value) ELSE afterOpen

\* The guard of the debounced callback: `!query || query.length < 1`.
guardRejects(query) == query = <<>> \/ Len(query) < 1

\* A call of searchTicker(query); by section 4.3 an empty or whitespace-only
\* query is answered with an empty result and no request to the endpoint.
isBlank(query) == \A i \in 1..Len(query) : query[i] = " "
searchTicker(query) == [query |-> query, network |-> ~isBlank(query)]

\* How a call can settle: a bestMatches array with matches or empty, a
\* response without a bestMatches array, a failure.
SearchOutcomes(call) == IF call.network THEN {"matches", "empty", "absent", "fail"} ELSE {"empty"}

bestMatches(query) == << ("1. symbol" :> query) >>

SearchIdle ==
    /\ searchValue = <<>>
    /\ showSearch = FALSE
    /\ searchResults = <<>>
    /\ searchLoading = FALSE
    /\ searchError = ""
    /\ debounced = NoTimer
    /\ inflight = <<>>
    /\ quiet = 0
    /\ issued = 0

\* TextInput.onChangeText = setSearchValue; the input exists while showSearch.
OnChangeText(v) ==
    /\ showSearch
    /\ v # searchValue
    /\ searchValue' = v
    /\ debounced' = runEffects(debounced, FALSE, TRUE, showSearch, v)
    /\ quiet' = 0
    /\ issued' = 0
    /\ UNCHANGED <<showSearch, searchResults, searchLoading, searchError, inflight, notSearchVars>>

\* The header icon: close and clear when the search is shown, else open.
PressHeaderIcon ==
    /\ IF showSearch
       THEN /\ showSearch' = FALSE
            /\ searchValue' = <<>>
       ELSE /\ showSearch' = TRUE
            /\ searchValue' = searchValue
    /\ debounced' = runEffects(debounced, TRUE, searchValue' # searchValue, showSearch', searchValue')
    /\ quiet' = IF searchValue' # searchValue THEN 0 ELSE quiet
    /\ issued' = 0
    /\ UNCHANGED <<searchResults, searchLoading, searchError, inflight, notSearchVars>>

\* Mutant: the backdrop clears the text as the header icon does.
PressBackdrop_ClearsText ==
    /\ showSearch /\ Len(searchValue) > 0
    /\ showSearch' = FALSE
    /\ searchValue' = <<>>
    /\ debounced' = runEffects(debounced, TRUE, TRUE, FALSE, <<>>)
    /\ quiet' = 0
    /\ issued' = 0
    /\ UNCHANGED <<searchResults, searchLoading, searchError, inflight, notSearchVars>>

\* The backdrop of the overlay: closeSearch().
PressBackdrop ==
    /\ showSearch /\ Len(searchValue) > 0
    /\ showSearch' = FALSE
    /\ debounced' = runEffects(debounced, TRUE, FALSE, FALSE, searchValue)
    /\ issued' = 0
    /\ UNCHANGED <<searchValue, searchResults, searchLoading, searchError, inflight, quiet, notSearchVars>>

\* A row of the result list: clear the text and the results, close.
PressResult ==
    /\ showSearch /\ Len(searchValue) > 0
    /\ ~searchLoading /\ searchError = "" /\ searchResults # <<>>
    /\ searchValue' = <<>>
    /\ searchResults' = <<>>
    /\ showSearch' = FALSE
    /\ debounced' = runEffects(debounced, TRUE, TRUE, FALSE, <<>>)
    /\ quiet' = 0
    /\ issued' = 0
    /\ UNCHANGED <<searchLoading, searchError, inflight, notSearchVars>>

SearchTick ==
    \E dt \in TickMillis :
        /\ quiet' = capAt(quiet + dt, DebounceMillis)
        /\ debounced' = IF debounced.armed
                        THEN [debounced EXCEPT !.elapsed = capAt(debounced.elapsed + dt, DebounceMillis)]
                        ELSE debounced
        /\ <<quiet', debounced'>> # <<quiet, debounced>>
        /\ UNCHANGED <<searchValue, showSearch, searchResults, searchLoading, searchError,
                       inflight, issued, notSearchVars>>

\* The wait is over: the callback runs up to its return or its await.
DebounceFires ==
    /\ debounced.armed
    /\ debounced.elapsed >= DebounceMillis
    /\ debounced' = NoTimer
    /\ IF guardRejects(debounced.args)
       THEN /\ searchResults' = <<>>
            /\ searchError' = ""
            /\ UNCHANGED <<searchLoading, inflight, issued>>
       ELSE /\ Len(inflight) < MaxInflight
            /\ searchLoading' = TRUE
            /\ searchError' = ""
            /\ inflight' = Append(inflight, searchTicker(debounced.args))
            /\ issued' = capAt(issued + 1, 2)
            /\ UNCHANGED searchResults
    /\ UNCHANGED <<searchValue, showSearch, quiet, notSearchVars>>

\* Mutant: a response to a query that is no longer the text is dropped.
SearchSettles_DropStale(i, outcome) ==
    /\ i \in 1..Len(inflight)
    /\ outcome \in SearchOutcomes(inflight[i])
    /\ inflight' = [j \in 1..(Len(inflight) - 1) |-> IF j < i THEN inflight[j] ELSE inflight[j + 1]]
    /\ IF inflight[i].query = searchValue
       THEN /\ searchResults' = IF outcome = "matches" THEN bestMatches(inflight[i].query) ELSE <<>>
            /\ searchError' = IF outcome = "fail" THEN SearchFailedMessage ELSE searchError
       ELSE UNCHANGED <<searchResults, searchError>>
    /\ searchLoading' = FALSE
    /\ UNCHANGED <<searchValue, showSearch, debounced, quiet, issued, notSearchVars>>

\* `await searchTicker(query)` settled for one of the calls awaited.
SearchSettles(i, outcome) ==
    /\ i \in 1..Len(inflight)
    /\ outcome \in SearchOutcomes(inflight[i])
    /\ inflight' = [j \in 1..(Len(inflight) - 1) |-> IF j < i THEN inflight[j] ELSE inflight[j + 1]]
    /\ searchResults' = IF outcome = "matches" THEN bestMatches(inflight[i].query) ELSE <<>>
    /\ searchError' = IF outcome = "fail" THEN SearchFailedMessage ELSE searchError
    /\ searchLoading' = FALSE
    /\ UNCHANGED <<searchValue, showSearch, debounced, quiet, issued, notSearchVars>>

(***************************************************************************)
(* WatchlistScreen (watchlist.tsx): loadGroups, the group list, deleteGroup *)
(* with its confirmation dialog.  A JavaScript value is a tagged record;   *)
(* the item persisted under WATCHLIST_GROUPS is absent or a text.          *)
(***************************************************************************)
GroupNames == {"Tech", "ETF"}
SymbolLists == {<<>>, <<"AAPL">>}
Mappings == UNION {[D -> SymbolLists] : D \in SUBSET GroupNames}
EmptyMapping == [g \in {} |-> <<>>]

JsNull == [tag |-> "null"]
JsNumber == [tag |-> "number"]
JsArray(items) == [tag |-> "array", items |-> items]
JsObject(map) == [tag |-> "object", map |-> map]

\* AsyncStorage items: getItem gives null for an absent key, else the text.
NoItem == [tag |-> "absent"]
EmptyText == [tag |-> "text", parses |-> FALSE, empty |-> TRUE]
UnparsableText == [tag |-> "text", parses |-> FALSE, empty |-> FALSE]
\* JSON.stringify(value): a text that JSON.parse turns back into value.
JSONstringify(value) == [tag |-> "text", parses |-> TRUE, empty |-> FALSE, json |-> value]

\* `if (data)`: null and "" are falsy.
itemTruthy(item) == item.tag = "text" /\ ~item.empty

\* selectedGroup is a group name or null.
Null == "<null>"

\* The key of index i of an array.
indexKey(i) == IF i = 1 THEN "0" ELSE "1"

\* {...value}: the own enumerable properties of value.
spread(value) ==
    CASE value.tag = "object" -> value.map
      [] value.tag = "array" ->
             [k \in {indexKey(i) : i \in 1..Len(value.items)} |->
                 IF k = "0" THEN value.items[1] ELSE value.items[2]]
      [] OTHER -> EmptyMapping

\* Object.keys(value), for a value that is not null.
objectKeys(value) == DOMAIN spread(value)

\* What WatchlistScreen renders: Object.keys(null) throws in render.
screen(gs, sel) ==
    IF gs.tag = "null" THEN "crashed"
    ELSE IF objectKeys(gs) = {} THEN "empty"
    ELSE IF sel # Null THEN "selected"
    ELSE "list"

\* loadGroups after `await getItem`: `if (data) setGroups(JSON.parse(data))`
\* inside try/catch; a rejected getItem and a throwing JSON.parse are caught.
loadGroups(gs, outcome, item) ==
    IF outcome = "reject" THEN gs
    ELSE IF ~itemTruthy(item) THEN gs
    ELSE IF ~item.parses THEN gs
    ELSE item.json

\* `const updated = { ...groups }; delete updated[group]`.
withoutGroup(gs, group) ==
    LET all == spread(gs)
    IN JsObject([g \in DOMAIN all \ {group} |-> all[g]])

NoAlert == [open |-> FALSE]
\* Alert.alert(...) called by deleteGroup(group): the Delete button's onPress
\* closes over the groups and selectedGroup of the render that called it.
Alert(group, gs, sel) == [open |-> TRUE, group |-> group, groups |-> gs, selectedGroup |-> sel]

\* A run of the Delete button's onPress, at its `await setItem`.
Deletion(a) ==
    [group |-> a.group, updated |-> withoutGroup(a.groups, a.group),
     selectedGroup |-> a.selectedGroup, pc |-> "writing"]

WithoutDeletion(ds, i) == [j \in 1..(Len(ds) - 1) |-> IF j < i THEN ds[j] ELSE ds[j + 1]]

\* What the runtime does with a promise rejection nobody handles: a
\* development build logs a warning, a release build drops it.
Rejections == {"logged", "dropped"}

WatchIdle ==
    /\ stored = NoItem
    /\ groups = JsObject(EmptyMapping)
    /\ selectedGroup = Null
    /\ loadPc = "idle"
    /\ alert = NoAlert
    /\ pending = <<>>
    /\ rejection = "none"
    /\ selectedStocks = <<>>
    /\ loads = <<>>

\* The effect on [selectedGroup, groups]: with a group selected it starts a
\* run of loadDetails over `groups[selectedGroup] || []`; nothing cancels
\* the runs started before.
loadDetailsEffect(ls, gs, sel) ==
    IF sel = Null THEN ls
    ELSE Append(ls, [symbols |-> IF sel \in objectKeys(gs) THEN spread(gs)[sel] ELSE <<>>])

\* loadGroups resumes after `await AsyncStorage.getItem('WATCHLIST_GROUPS')`.
LoadGroupsSettles(outcome) ==
    /\ loadPc = "reading"
    /\ groups' = loadGroups(groups, outcome, stored)
    /\ loadPc' = IF outcome = "reject" THEN "readFailed" ELSE "done"
    /\ loads' = IF groups' # groups THEN loadDetailsEffect(loads, groups', selectedGroup) ELSE loads
    /\ UNCHANGED <<stored, selectedGroup, alert, pending, rejection, selectedStocks, notWatchVars>>

\* A row of the group list: setSelectedGroup(item); the effect starts a
\* run of loadDetails for it.
PressGroup(g) ==
    /\ screen(groups, selectedGroup) = "list"
    /\ ~alert.open
    /\ g \in objectKeys(groups)
    /\ Len(loads) < MaxLoads
    /\ selectedGroup' = g
    /\ loads' = loadDetailsEffect(loads, groups, g)
    /\ UNCHANGED <<stored, groups, loadPc, alert, pending, rejection, selectedStocks, notWatchVars>>

\* '< Back to Groups': setSelectedGroup(null).
PressBack ==
    /\ screen(groups, selectedGroup) = "selected"
    /\ ~alert.open
    /\ selectedGroup' = Null
    /\ UNCHANGED <<stored, groups, loadPc, alert, pending, rejection, selectedStocks, loads, notWatchVars>>

\* The trash icon of a row: deleteGroup(item) shows the confirmation.
PressTrash(g) ==
    /\ screen(groups, selectedGroup) = "list"
    /\ ~alert.open
    /\ g \in objectKeys(groups)
    /\ alert' = Alert(g, groups, selectedGroup)
    /\ UNCHANGED <<stored, groups, selectedGroup, loadPc, pending, rejection, selectedStocks, loads, notWatchVars>>

\* The Cancel button.
AlertCancel ==
    /\ alert.open
    /\ alert' = NoAlert
    /\ UNCHANGED <<stored, groups, selectedGroup, loadPc, pending, rejection, selectedStocks, loads, notWatchVars>>

\* The Delete button: onPress runs up to `await AsyncStorage.setItem(...)`.
AlertDelete ==
    /\ alert.open
    /\ Len(pending) < MaxPending
    /\ pending' = Append(pending, Deletion(alert))
    /\ alert' = NoAlert
    /\ UNCHANGED <<stored, groups, selectedGroup, loadPc, rejection, selectedStocks, loads, notWatchVars>>

\* The store has written the item of a running deletion.
SetItemLands(i) ==
    /\ i \in 1..Len(pending)
    /\ pending[i].pc = "writing"
    /\ stored' = JSONstringify(pending[i].updated)
    /\ pending' = [pending EXCEPT ![i].pc = "written"]
    /\ UNCHANGED <<groups, selectedGroup, loadPc, alert, rejection, selectedStocks, loads, notWatchVars>>

\* setItem rejected: onPress has no try/catch and Alert drops the promise
\* onPress returns, so the rejection is unhandled.
SetItemFails(i, r) ==
    /\ i \in 1..Len(pending)
    /\ pending[i].pc = "writing"
    /\ pending' = WithoutDeletion(pending, i)
    /\ rejection' = r
    /\ UNCHANGED <<stored, groups, selectedGroup, loadPc, alert, selectedStocks, loads, notWatchVars>>

\* onPress resumes after the await: setGroups(updated) and, when the
\* captured selectedGroup is the group, setSelectedGroup(null); groups is a
\* new object, so the effect runs again.
DeletionContinues(i) ==
    /\ i \in 1..Len(pending)
    /\ pending[i].pc = "written"
    /\ groups' = pending[i].updated
    /\ selectedGroup' = IF pending[i].selectedGroup = pending[i].group THEN Null ELSE selectedGroup
    /\ pending' = WithoutDeletion(pending, i)
    /\ selectedGroup' = Null \/ Len(loads) < MaxLoads
    /\ loads' = loadDetailsEffect(loads, groups', selectedGroup')
    /\ UNCHANGED <<stored, loadPc, alert, rejection, selectedStocks, notWatchVars>>

\* A run of loadDetails has awaited its Promise.all: one entry per symbol
\* of the run, each with the price the snapshot or the quick quote gave (or
\* '--'), then setSelectedStocks(results).
LoadDetailsSettles(i) ==
    \E prices \in [1..(IF i \in 1..Len(loads) THEN Len(loads[i].symbols) ELSE 0) ->
                       {NoPrice, formatDollars(QuotedPrice)}] :
        /\ i \in 1..Len(loads)
        /\ selectedStocks' =
               [k \in 1..Len(loads[i].symbols) |->
                   [symbol |-> loads[i].symbols[k],
                    image |-> detailsImageUrl(<<loads[i].symbols[k]>>),
                    price |-> prices[k]]]
        /\ loads' = [j \in 1..(Len(loads) - 1) |-> IF j < i THEN loads[j] ELSE loads[j + 1]]
        /\ UNCHANGED <<stored, groups, selectedGroup, loadPc, alert, pending, rejection, notWatchVars>>

\* The details page's writers of the same key (section 4.6): loadAll, then
\* createGroup or toggleSymbol, then persist.
loadAll(item) ==
    IF itemTruthy(item) /\ item.parses /\ item.json.tag = "object" THEN item.json.map ELSE EmptyMapping

createGroup(map, name) == [g \in DOMAIN map \cup {name} |-> IF g \in DOMAIN map THEN map[g] ELSE <<>>]

toggleSymbol(map, group, symb) ==
    [map EXCEPT ![group] = IF \E k \in 1..Len(@) : @[k] = symb
                           THEN SelectSeq(@, LAMBDA x : x # symb)
                           ELSE Append(@, symb)]

DetailsCreateGroup(name) ==
    /\ name \notin DOMAIN loadAll(stored)
    /\ stored' = JSONstringify(JsObject(createGroup(loadAll(stored), name)))
    /\ UNCHANGED <<groups, selectedGroup, loadPc, alert, pending, rejection, selectedStocks, loads, notWatchVars>>

DetailsToggleSymbol(group, symb) ==
    /\ group \in DOMAIN loadAll(stored)
    /\ stored' = JSONstringify(JsObject(toggleSymbol(loadAll(stored), group, symb)))
    /\ UNCHANGED <<groups, selectedGroup, loadPc, alert, pending, rejection, selectedStocks, loads, notWatchVars>>

(***************************************************************************)
(* StockLogo (index.tsx 43-65): one mounted logo with its idx and failed   *)
(* state.  loadable[i] tells whether the image at candidate i loads; an    *)
(* image that does not load reports onError once.                          *)
(***************************************************************************)
PlaceholderAsset == <<"stock-placeholder.png">>

\* `uris && uris.length ? uris : uri ? [uri] : []`; a prop not passed is <<>>.
logoCandidates(uri, urisProp) ==
    IF Len(urisProp) > 0 THEN urisProp
    ELSE IF uri # <<>> THEN <<uri>>
    ELSE <<>>

min(a, b) == IF a < b THEN a ELSE b

\* `failed || candidates.length === 0 ? fallback : candidates[Math.min(idx, length - 1)]`
logoSrc(cands, i, f) ==
    IF f \/ Len(cands) = 0 THEN PlaceholderAsset ELSE cands[min(i, Len(cands) - 1) + 1]

\* Mutant: an error on any candidate gives up at once.
onError_GiveUp(cands, i, f) == [idx |-> i, failed |-> TRUE]

\* The Image's onError handler.
onError(cands, i, f) ==
    IF i < Len(cands) - 1 THEN [idx |-> i + 1, failed |-> f] ELSE [idx |-> i, failed |-> TRUE]

LogoIdle ==
    /\ shown = <<>>
    /\ loadable = <<>>
    /\ idx = 0
    /\ failed = FALSE

\* The image shown is a candidate that does not load: onError runs.
LogoOnError ==
    /\ logoSrc(shown, idx, failed) # PlaceholderAsset
    /\ ~loadable[min(idx, Len(shown) - 1) + 1]
    /\ idx' = onError(shown, idx, failed).idx
    /\ failed' = onError(shown, idx, failed).failed
    /\ UNCHANGED <<shown, loadable, notLogoVars>>

(***************************************************************************)
(* Idle values of each group of variables.                                 *)
(***************************************************************************)
UrisIdle == sym = <<>> /\ uris = <<>> /\ urisPc = "idle"
MapIdle == raw = <<>> /\ stock = NoStock /\ mapPc = "idle"

(***************************************************************************)
(* SpecUris: candidateImageUris over every symbol up to MaxSymLen.         *)
(***************************************************************************)
BRKB == <<"B", "R", "K", ".", "B">>
Symbols == SeqsUpTo(Alphabet, MaxSymLen) \cup {BRKB}

InitUris ==
    /\ sym \in Symbols
    /\ uris = <<>>
    /\ urisPc = "call"
    /\ MapIdle
    /\ CacheIdle
    /\ HomeIdle
    /\ BatchIdle
    /\ SearchIdle
    /\ WatchIdle
    /\ LogoIdle

CallCandidateImageUris ==
    /\ urisPc = "call"
    /\ uris' = candidateImageUris(sym)
    /\ urisPc' = "done"
    /\ UNCHANGED <<sym, notUrisVars>>

NextUris == CallCandidateImageUris

SpecUris == InitUris /\ [][NextUris]_vars

(***************************************************************************)
(* SpecMap: mapStock over every raw record.                                *)
(***************************************************************************)
InitMap ==
    /\ raw \in RawRecords
    /\ stock = NoStock
    /\ mapPc = "call"
    /\ UrisIdle
    /\ CacheIdle
    /\ HomeIdle
    /\ BatchIdle
    /\ SearchIdle
    /\ WatchIdle
    /\ LogoIdle

CallMapStock ==
    /\ mapPc = "call"
    /\ stock' = mapStock(raw)
    /\ mapPc' = "done"
    /\ UNCHANGED <<raw, notMapVars>>

NextMap == CallMapStock

SpecMap == InitMap /\ [][NextMap]_vars

(***************************************************************************)
(* SpecCache: getOrFetch on two keys while the clock advances.             *)
(***************************************************************************)
InitCache == CacheIdle /\ UrisIdle /\ MapIdle /\ HomeIdle /\ BatchIdle /\ SearchIdle /\ WatchIdle /\ LogoIdle

NextCache ==
    \/ Tick
    \/ \E k \in Keys : GetOrFetchBegin(k)
    \/ \E k \in Keys : FetcherResolves(k, UpstreamAt(now))
    \/ \E k \in Keys : FetcherRejects(k)

SpecCache == InitCache /\ [][NextCache]_vars

(***************************************************************************)
(* SpecHome: one mount of ExploreScreen.  The screen is mounted at some    *)
(* time with the gainers/losers entry absent, fresh, or 24 h or 25 h old   *)
(* (states SpecCache reaches), and fetchData runs once.                    *)
(***************************************************************************)
InitHome ==
    /\ now = MaxHours * HourMillis
    /\ \E e \in {NoEntry} \cup {CacheEntry(s, now - a * HourMillis) : s \in Snapshots, a \in {23, 24, 25}} :
           cache = [k \in Keys |-> IF k = GainersKey THEN e ELSE NoEntry]
    /\ go = [k \in Keys |-> IdleCall]
    /\ hPc = "mounted"
    /\ loading = TRUE
    /\ error = ""
    /\ gainers = <<>>
    /\ losers = <<>>
    /\ gainersRaw = <<>>
    /\ losersRaw = <<>>
    /\ gainersWithImages = <<>>
    /\ UrisIdle
    /\ MapIdle
    /\ BatchIdle
    /\ SearchIdle
    /\ WatchIdle
    /\ LogoIdle

NextHome ==
    \/ FetchDataStart
    \/ \E s \in Snapshots : FetcherResolves(GainersKey, s)
    \/ FetcherRejects(GainersKey)
    \/ FetchDataGotData
    \/ FetchDataGainersImages
    \/ FetchDataLosersImages
    \/ FetchDataCatch

SpecHome == InitHome /\ [][NextHome]_vars

\* The same when every fetch and every probe settles and every awaiting
\* function is resumed.
SpecHomeFair == InitHome /\ [][NextHome]_vars /\ WF_vars(NextHome)

(***************************************************************************)
(* SpecBatch: one batch of each kind over up to BatchSize items, from the  *)
(* moment the map callbacks have run to their first await.                 *)
(***************************************************************************)
SeqsOfLen(S, n) == {q \in SeqsUpTo(S, n) : Len(q) = n}

\* Stocks as mapStock leaves them, with no, one or three logo candidates.
BatchStocks == {mapStock([ticker |-> s]) : s \in {<<>>, <<"a">>, <<"B", ".", "a">>}}

\* Search matches: with a symbol or without one.
BatchMatches == {[symbol |-> <<"a">>], [name |-> <<"B">>]} \cup {"1. symbol" :> <<"B", ".", "a">>}

\* Symbols of a watchlist group.
BatchSymbols == {<<"a">>, <<"B">>}

\* What getCachedTopGainersLosers left loadDetails with: nothing (it threw),
\* an object without lists, or lists holding a, A or B, with or without a price.
BatchCached ==
    { NoSnapshot,
      SomeSnapshot([Information |-> <<"rate limit">>]),
      SomeSnapshot([top_gainers |-> <<[ticker |-> <<"a">>, price |-> <<"1", ".", "5">>]>>,
                    top_losers |-> <<[ticker |-> <<"B">>]>>]),
      SomeSnapshot([top_gainers |-> <<>>,
                    top_losers |-> <<[symbol |-> <<"B">>, close |-> <<"num", "9">>]>>]),
      SomeSnapshot([top_gainers |-> <<[name |-> <<"A">>, last |-> <<"3">>]>>]) }

InitBatch ==
    /\ bKind \in {"updateStockImages", "prefetchImages", "loadDetails"}
    /\ \E n \in 0..BatchSize :
           bInput \in CASE bKind = "updateStockImages" -> SeqsOfLen(BatchStocks, n)
                        [] bKind = "prefetchImages" -> SeqsOfLen(BatchMatches, n)
                        [] OTHER -> SeqsOfLen(BatchSymbols, n)
    /\ bCached \in (IF bKind = "loadDetails" THEN BatchCached ELSE {NoSnapshot})
    /\ bMembers = [i \in 1..Len(bInput) |->
                       CASE bKind = "updateStockImages" -> imageMemberStart(bInput[i])
                         [] bKind = "prefetchImages" -> prefetchMemberStart(bInput[i])
                         [] OTHER -> detailsMemberStart(bInput[i], bCached)]
    /\ bPc = "running"
    /\ bResult = <<>>
    /\ UrisIdle
    /\ MapIdle
    /\ CacheIdle
    /\ HomeIdle
    /\ SearchIdle
    /\ WatchIdle
    /\ LogoIdle

NextBatch ==
    \/ \E i \in 1..Len(bMembers), o \in ProbeOutcomes : ImageProbeSettles(i, o)
    \/ \E i \in 1..Len(bMembers), o \in ProbeOutcomes : PrefetchProbeSettles(i, o)
    \/ \E i \in 1..Len(bMembers) : PrefetchSleepEnds(i)
    \/ \E i \in 1..Len(bMembers), q \in QuoteOutcomes : QuoteSettles(i, q)
    \/ \E i \in 1..Len(bMembers), o \in ProbeOutcomes : DetailsPrefetchSettles(i, o)
    \/ PromiseAllSettles

SpecBatch == InitBatch /\ [][NextBatch]_vars

(***************************************************************************)
(* SpecSearch: the search from the mount of ExploreScreen on.  At mount    *)
(* the debounced search effect has run once, with the empty text.          *)
(***************************************************************************)
InitSearch ==
    /\ searchValue = <<>>
    /\ showSearch = FALSE
    /\ searchResults = <<>>
    /\ searchLoading = FALSE
    /\ searchError = ""
    /\ debounced = runEffects(NoTimer, TRUE, TRUE, FALSE, <<>>)
    /\ inflight = <<>>
    /\ quiet = 0
    /\ issued = 0
    /\ UrisIdle
    /\ MapIdle
    /\ CacheIdle
    /\ HomeIdle
    /\ BatchIdle
    /\ WatchIdle
    /\ LogoIdle

NextSearch ==
    \/ \E v \in Texts : OnChangeText(v)
    \/ PressHeaderIcon
    \/ PressBackdrop
    \/ PressResult
    \/ SearchTick
    \/ DebounceFires
    \/ \E i \in 1..MaxInflight, o \in {"matches", "empty", "absent", "fail"} : SearchSettles(i, o)

SpecSearch == InitSearch /\ [][NextSearch]_vars

(***************************************************************************)
(* SpecWatch: WatchlistScreen from its mount on (the tab stays mounted),   *)
(* over every item the key can hold.  SpecWatchShared: the same with the   *)
(* details page writing the same key.                                      *)
(***************************************************************************)
StoredItems ==
    {NoItem, EmptyText, UnparsableText}
        \cup {JSONstringify(v) : v \in {JsNull, JsNumber, JsArray(<<>>), JsArray(<< <<"AAPL">> >>)}}
        \cup {JSONstringify(JsObject(m)) : m \in Mappings}

InitWatch ==
    /\ stored \in StoredItems
    /\ groups = JsObject(EmptyMapping)
    /\ selectedGroup = Null
    /\ loadPc = "reading"
    /\ alert = NoAlert
    /\ pending = <<>>
    /\ rejection = "none"
    /\ selectedStocks = <<>>
    /\ loads = <<>>
    /\ UrisIdle
    /\ MapIdle
    /\ CacheIdle
    /\ HomeIdle
    /\ BatchIdle
    /\ SearchIdle
    /\ LogoIdle

NextWatch ==
    \/ \E o \in {"resolve", "reject"} : LoadGroupsSettles(o)
    \/ \E g \in GroupNames \cup {"0"} : PressGroup(g)
    \/ PressBack
    \/ \E g \in GroupNames \cup {"0"} : PressTrash(g)
    \/ AlertCancel
    \/ AlertDelete
    \/ \E i \in 1..Len(pending) : SetItemLands(i)
    \/ \E i \in 1..Len(pending), r \in Rejections : SetItemFails(i, r)
    \/ \E i \in 1..Len(pending) : DeletionContinues(i)
    \/ \E i \in 1..Len(loads) : LoadDetailsSettles(i)

SpecWatch == InitWatch /\ [][NextWatch]_vars

NextWatchShared ==
    \/ \E o \in {"resolve", "reject"} : LoadGroupsSettles(o)
    \/ \E g \in GroupNames \cup {"0"} : PressGroup(g)
    \/ PressBack
    \/ \E g \in GroupNames \cup {"0"} : PressTrash(g)
    \/ AlertCancel
    \/ AlertDelete
    \/ \E i \in 1..Len(pending) : SetItemLands(i)
    \/ \E i \in 1..Len(pending), r \in Rejections : SetItemFails(i, r)
    \/ \E i \in 1..Len(pending) : DeletionContinues(i)
    \/ \E i \in 1..Len(loads) : LoadDetailsSettles(i)
    \/ \E name \in GroupNames : DetailsCreateGroup(name)
    \/ \E g \in GroupNames : DetailsToggleSymbol(g, "AAPL")

SpecWatchShared == InitWatch /\ [][NextWatchShared]_vars

(***************************************************************************)
(* SpecLogo: one StockLogo over the candidates of a symbol (none, one,     *)
(* three or five) or a single uri (a stock's image, which is the text      *)
(* "placeholder" when no logo was found), for every choice of which load.  *)
(* An image that cannot load does report its error (weak fairness).        *)
(***************************************************************************)
LogoSymbols == {<<>>, <<"a">>, <<"B", ".", "a">>, <<"a", "-", "B">>, <<"B", ".", "a", "-", "B">>, BRKB}

LogoProps ==
    {[uri |-> <<>>, uris |-> candidateImageUris(s)] : s \in LogoSymbols}
        \cup {[uri |-> u, uris |-> <<>>] : u \in {fmpImageUrl(<<"a">>), Placeholder}}

InitLogo ==
    /\ \E props \in LogoProps : shown = logoCandidates(props.uri, props.uris)
    /\ loadable \in [1..Len(shown) -> BOOLEAN]
    /\ idx = 0
    /\ failed = FALSE
    /\ UrisIdle
    /\ MapIdle
    /\ CacheIdle
    /\ HomeIdle
    /\ BatchIdle
    /\ SearchIdle
    /\ WatchIdle

NextLogo == LogoOnError

SpecLogo == InitLogo /\ [][NextLogo]_vars /\ WF_vars(LogoOnError)

(***************************************************************************)
(* Claims about candidateImageUris (SpecUris).                             *)
(***************************************************************************)
\* The longest prefix of s that holds no character c.
PartBefore(s, c) ==
    LET n == CHOOSE k \in 0..Len(s) :
                 /\ \A i \in 1..k : s[i] # c
                 /\ k < Len(s) => s[k + 1] = c
    IN SubSeq(s, 1, n)

\* The five variants as the claim lists them.
ListedVariants(s) ==
    << s,
       [i \in 1..Len(s) |-> IF s[i] = "." THEN "-" ELSE s[i]],
       [i \in 1..Len(s) |-> IF s[i] = "-" THEN "." ELSE s[i]],
       PartBefore(s, "."),
       PartBefore(s, "-") >>

\* C3: for a non-empty symbol the result holds the URL of every non-empty
\* listed variant of the upper-cased symbol and nothing else, no URL twice,
\* ordered by each variant's first place in the list; for BRK.B it is the
\* URLs of BRK.B, BRK-B, BRK.
C3_CandidateList ==
    (urisPc = "done" /\ sym # <<>>) =>
        LET V == ListedVariants(toUpperCase(sym))
            firstAt(u) == CHOOSE k \in 1..5 :
                              /\ fmpImageUrl(V[k]) = u
                              /\ \A j \in 1..(k - 1) : fmpImageUrl(V[j]) # u
        IN /\ \A i, j \in 1..Len(uris) : i # j => uris[i] # uris[j]
           /\ {uris[i] : i \in 1..Len(uris)} = {fmpImageUrl(V[k]) : k \in {j \in 1..5 : V[j] # <<>>}}
           /\ \A i, j \in 1..Len(uris) : i < j => firstAt(uris[i]) < firstAt(uris[j])
           /\ sym = BRKB =>
                  uris = << fmpImageUrl(<<"B", "R", "K", ".", "B">>),
                            fmpImageUrl(<<"B", "R", "K", "-", "B">>),
                            fmpImageUrl(<<"B", "R", "K">>) >>

C3_Witness == urisPc = "done" /\ sym = BRKB /\ Len(uris) = 3

\* The part of s before any '.' or '-'.
BaseTicker(s) ==
    LET a == PartBefore(s, ".")
        b == PartBefore(s, "-")
    IN IF Len(a) <= Len(b) THEN a ELSE b

HasSeparator(v) == \E i \in 1..Len(v) : v[i] \in {".", "-"}

\* C4: the last candidate is the base ticker (the part of the symbol before
\* any '.' or '-') and every candidate that still holds a separator comes
\* before it.  Stated for symbols that do not start with a separator, so that
\* the base ticker is not empty.
C4_BaseTickerLast ==
    (urisPc = "done" /\ sym # <<>> /\ ~(sym[1] \in {".", "-"})) =>
        /\ uris # <<>>
        /\ uris[Len(uris)] = fmpImageUrl(BaseTicker(toUpperCase(sym)))
        /\ \A i \in 1..(Len(uris) - 1) : uris[i] # uris[Len(uris)]

(***************************************************************************)
(* Claims about mapStock (SpecMap).                                        *)
(***************************************************************************)
\* The value of a raw field, the empty string when the field is missing.
FieldOrEmpty(s, f) == IF f \in DOMAIN s THEN s[f] ELSE <<>>

\* C7: mapStock is total: symbol is the first non-empty of ticker, symbol,
\* name; price the first non-empty of price, close; change the change field;
\* a missing field gives the empty string.
C7_MapStockTotal ==
    mapPc = "done" =>
        LET t == FieldOrEmpty(raw, "ticker")
            y == FieldOrEmpty(raw, "symbol")
            n == FieldOrEmpty(raw, "name")
            p == FieldOrEmpty(raw, "price")
            c == FieldOrEmpty(raw, "close")
        IN /\ stock.symbol = (IF t # <<>> THEN t ELSE IF y # <<>> THEN y ELSE n)
           /\ stock.price = (IF p # <<>> THEN p ELSE c)
           /\ stock.change = FieldOrEmpty(raw, "change")
           /\ (DOMAIN raw \cap {"ticker", "symbol", "name"} = {}) => stock.symbol = <<>>

C7_Witness ==
    /\ mapPc = "done"
    /\ DOMAIN raw = {"price", "change"}
    /\ stock.symbol = <<>>
    /\ stock.price # <<>>

(***************************************************************************)
(* Claims about getOrFetch (SpecCache).                                    *)
(***************************************************************************)
\* The entry of k is present and younger than 24 hours, strictly.
FreshFor24h(k) == cache[k].present /\ now - cache[k].fetchedAtEpochMillis < 86400000

\* C1: a call of getOrFetch invokes the fetcher iff the entry is absent or
\* not fresh (now - fetchedAt >= 24 h): a call on a fresh entry returns the
\* stored value with no fetcher call and leaves the entry alone, any other
\* call invokes the fetcher once, and the rest of the call never invokes it
\* again.
C1_FetchIffNotFresh ==
    [][\A k \in Keys :
         /\ (go[k].pc # "fetching" /\ go'[k] # go[k]) =>
                IF FreshFor24h(k)
                THEN /\ go'[k].fetcherCalls = 0
                     /\ go'[k].pc = "returned"
                     /\ go'[k].value = cache[k].value
                     /\ cache'[k] = cache[k]
                ELSE /\ go'[k].fetcherCalls = 1
                     /\ go'[k].pc = "fetching"
         /\ go[k].pc = "fetching" => go'[k].fetcherCalls = 1
      ]_vars

\* One entry read at t0 + 23 h (served from the cache, no fetcher call) while
\* another, read at t0 + 25 h, is being refreshed by one fetcher call.
C1_Witness ==
    /\ cache[GainersKey].present
    /\ now - cache[GainersKey].fetchedAtEpochMillis = 23 * HourMillis
    /\ go[GainersKey].pc = "returned"
    /\ go[GainersKey].fetcherCalls = 0
    /\ go[GainersKey].value = cache[GainersKey].value
    /\ cache[TimeSeriesKey].present
    /\ now - cache[TimeSeriesKey].fetchedAtEpochMillis = 25 * HourMillis
    /\ go[TimeSeriesKey].pc = "fetching"
    /\ go[TimeSeriesKey].fetcherCalls = 1

(***************************************************************************)
(* Claims about fetchData and the cache behind it (SpecHome).              *)
(***************************************************************************)
\* C2: when the fetcher fails, a call on a key with an entry (expired or not)
\* returns that entry's value, raises nothing and leaves the entry as it is;
\* a call on a key without an entry throws, and the home screen that made it
\* ends with its load-failure message, while a call served stale ends with no
\* error message.
C2_StaleOnFailure ==
    [][/\ (go[GainersKey].fetch = "pending" /\ go'[GainersKey].fetch = "failed") =>
              /\ cache' = cache
              /\ IF cache[GainersKey].present
                 THEN /\ go'[GainersKey].pc = "returned"
                      /\ go'[GainersKey].value = cache[GainersKey].value
                 ELSE go'[GainersKey].pc = "threw"
       /\ (hPc' = "done" /\ go'[GainersKey].pc = "threw") =>
              error' = "Failed to load data. Please try again."
       /\ (hPc' = "done" /\ go'[GainersKey].pc = "returned") => error' = ""
      ]_vars

\* The fetch failed on an expired entry and the screen shows the stale lists.
C2_Witness ==
    /\ hPc = "done"
    /\ go[GainersKey].fetch = "failed"
    /\ go[GainersKey].pc = "returned"
    /\ now - cache[GainersKey].fetchedAtEpochMillis >= 86400000
    /\ error = ""
    /\ Len(gainers) > 0

\* C8: gainers and losers hold at most 4 entries; after a successful load
\* they are the first min(4, n) records of the snapshot's top_gainers and
\* top_losers in the snapshot's order, and the cached snapshot is still the
\* whole snapshot the screen was given.
C8_FirstFourInOrder ==
    /\ Len(gainers) <= 4
    /\ Len(losers) <= 4
    /\ (hPc = "done" /\ go[GainersKey].pc = "returned") =>
           LET data == go[GainersKey].value
               G == IF "top_gainers" \in DOMAIN data THEN data.top_gainers ELSE <<>>
               L == IF "top_losers" \in DOMAIN data THEN data.top_losers ELSE <<>>
               min4(n) == IF n < 4 THEN n ELSE 4
           IN /\ Len(gainers) = min4(Len(G))
              /\ Len(losers) = min4(Len(L))
              /\ \A i \in 1..Len(gainers) :
                     gainers[i].symbol = G[i].ticker /\ gainers[i].price = G[i].price
              /\ \A i \in 1..Len(losers) :
                     losers[i].symbol = L[i].ticker /\ losers[i].price = L[i].price
              /\ cache[GainersKey].present
              /\ cache[GainersKey].value = data

\* A snapshot of more than 4 gainers is cached whole and shown cut to 4.
C8_Witness ==
    /\ hPc = "done"
    /\ go[GainersKey].pc = "returned"
    /\ cache[GainersKey].present
    /\ "top_gainers" \in DOMAIN cache[GainersKey].value
    /\ Len(cache[GainersKey].value.top_gainers) > 4
    /\ Len(gainers) = 4
    /\ Len(losers) = 3

(***************************************************************************)
(* Claims about the batches (SpecBatch).                                   *)
(***************************************************************************)
\* C5: each stock's candidates are probed in list order with none skipped,
\* nothing is probed after a probe that succeeded, a probe that returned
\* false or threw is followed by the next candidate, and the stock ends with
\* the first candidate that loaded, or with the placeholder marker when all
\* failed or there was no candidate.
C5_FirstLoadableInOrder ==
    bKind = "updateStockImages" =>
        \A i \in 1..Len(bMembers) :
            LET m == bMembers[i]
                c == candidateImageUris(bInput[i].symbol)
                p == m.probed
            IN /\ Len(p) <= Len(c)
               /\ \A j \in 1..Len(p) : p[j].url = c[j]
               /\ \A j \in 1..(Len(p) - 1) : p[j].outcome # "ok"
               /\ IF m.pc = "fulfilled"
                  THEN IF Len(p) > 0 /\ p[Len(p)].outcome = "ok"
                       THEN m.value = [bInput[i] EXCEPT !.image = c[Len(p)]]
                       ELSE /\ Len(p) = Len(c)
                            /\ m.value = bInput[i]
                            /\ m.value.image = <<"placeholder">>
                  ELSE /\ m.pc = "probing"
                       /\ Len(p) < Len(c)
                       /\ \A j \in 1..Len(p) : p[j].outcome # "ok"

\* A stock whose first probe returned false and second threw got its third
\* candidate, beside a stock without candidates that kept the placeholder.
C5_Witness ==
    /\ bKind = "updateStockImages"
    /\ bPc = "resolved"
    /\ Len(bMembers) = 2
    /\ Len(bMembers[1].probed) = 3
    /\ bMembers[1].probed[1].outcome = "false"
    /\ bMembers[1].probed[2].outcome = "throw"
    /\ bResult[1].image = candidateImageUris(bInput[1].symbol)[3]
    /\ bMembers[2].probed = <<>>
    /\ bResult[2].image = <<"placeholder">>

\* The outcome a member's own awaits give it.
OwnOutcome(kind, item, m) ==
    CASE kind = "updateStockImages" ->
             [item EXCEPT !.image =
                 IF \E j \in 1..Len(m.probed) : m.probed[j].outcome = "ok"
                 THEN m.probed[CHOOSE j \in 1..Len(m.probed) : m.probed[j].outcome = "ok"].url
                 ELSE <<"placeholder">>]
      [] kind = "prefetchImages" -> [undefined |-> TRUE]
      [] OTHER ->
             [symbol |-> item,
              image |-> <<"https://financialmodelingprep.com/image-stock/">> \o toUpperCase(item) \o <<".png">>,
              price |-> IF m.quoted = "none" THEN cachedPrice(bCached, toUpperCase(item))
                        ELSE IF m.quoted = "price" THEN <<"$", "7", ".00">>
                        ELSE <<"--">>]

\* C6: no batch is ever rejected and no member ever is; a step of one member,
\* failed or not, changes no other member; a settled batch holds one outcome
\* per input item, in input order, each the outcome of that member's own
\* probes and requests (its fallback when they failed).
C6_BatchIsolation ==
    [][/\ bPc' # "rejected"
       /\ \A i \in 1..Len(bMembers') : bMembers'[i].pc # "rejected"
       /\ Cardinality({i \in 1..Len(bMembers) : bMembers'[i] # bMembers[i]}) <= 1
       /\ bPc' = "resolved" =>
              /\ Len(bResult') = Len(bInput)
              /\ \A i \in 1..Len(bInput) : bResult'[i] = OwnOutcome(bKind, bInput[i], bMembers[i])
       /\ (bPc = "running" /\ bPc' = "resolved") =>
              (\A i \in 1..Len(bMembers) : bMembers[i].pc = "fulfilled")
      ]_vars

\* A settled watchlist batch in which the first symbol's quote request failed
\* (price '--') and the second symbol's succeeded.
C6_Witness ==
    /\ bKind = "loadDetails"
    /\ bPc = "resolved"
    /\ Len(bResult) = 2
    /\ bMembers[1].quoted = "throw"
    /\ bMembers[1].probed[1].outcome = "throw"
    /\ bResult[1].price = <<"--">>
    /\ bMembers[2].quoted = "price"
    /\ bResult[2].price = <<"$", "7", ".00">>

\* The symbol a snapshot record is matched by.
RecordSymbol(rec) ==
    IF truthy(rec, "ticker") THEN rec.ticker
    ELSE IF truthy(rec, "symbol") THEN rec.symbol
    ELSE IF truthy(rec, "name") THEN rec.name
    ELSE <<>>

SnapshotRecords(cached) ==
    IF ~cached.ok THEN <<>>
    ELSE (IF "top_gainers" \in DOMAIN cached.data THEN cached.data.top_gainers ELSE <<>>)
             \o (IF "top_losers" \in DOMAIN cached.data THEN cached.data.top_losers ELSE <<>>)

\* The snapshot is unavailable, has no record for the symbol (compared
\* case-insensitively), or its first such record has no price.
SnapshotYieldsNoPrice(cached, symb) ==
    LET recs == SnapshotRecords(cached)
        K == {k \in 1..Len(recs) : toUpperCase(RecordSymbol(recs[k])) = toUpperCase(symb)}
    IN \/ K = {}
       \/ LET first == CHOOSE k \in K : \A j \in K : k <= j
          IN \A f \in {"price", "close", "last"} : ~truthy(recs[first], f)

QuoteRequested(m) == m.pc = "quoting" \/ m.quoted # "none"

\* C18: for each symbol of the group, quote-short is requested exactly when
\* the snapshot yielded no price for it; a price from the snapshot is what
\* the entry shows, and when the quote gives none either the price is '--'.
C18_QuoteIsLastResort ==
    bKind = "loadDetails" =>
        \A i \in 1..Len(bMembers) :
            /\ QuoteRequested(bMembers[i]) <=> SnapshotYieldsNoPrice(bCached, bInput[i])
            /\ bPc = "resolved" =>
                   IF SnapshotYieldsNoPrice(bCached, bInput[i])
                   THEN bMembers[i].quoted # "price" => bResult[i].price = <<"--">>
                   ELSE bResult[i].price # <<"--">>

\* A settled group of two: a's price came from the snapshot and no quote was
\* requested for it; B has a record without a price, its quote request
\* failed, and its price is '--'.
C18_Witness ==
    /\ bKind = "loadDetails"
    /\ bPc = "resolved"
    /\ bInput = << <<"a">>, <<"B">> >>
    /\ ~SnapshotYieldsNoPrice(bCached, <<"a">>)
    /\ bMembers[1].quoted = "none"
    /\ bResult[1].price = <<"1", ".", "5">>
    /\ SnapshotYieldsNoPrice(bCached, <<"B">>)
    /\ SnapshotRecords(bCached) # <<>>
    /\ bMembers[2].quoted = "throw"
    /\ bResult[2].price = <<"--">>

(***************************************************************************)
(* Claims about the search (SpecSearch).                                   *)
(***************************************************************************)
EmptyOrWhitespace(q) == \A i \in 1..Len(q) : q[i] = " "

\* C9: when the debounced callback runs with an empty or whitespace-only
\* query, the result list is empty, searchTicker is not invoked and
\* searchLoading is not set.
C9_BlankQueryNoSearch ==
    [][(debounced.armed /\ ~debounced'.armed /\ EmptyOrWhitespace(debounced.args)) =>
           /\ searchResults' = <<>>
           /\ inflight' = inflight
           /\ searchLoading' = searchLoading
      ]_vars

\* C10: searchTicker is called only when the text has been unchanged for the
\* 400 ms quiet period, with the text as it then is, one call at a time; and
\* at most one call follows a run of the effects, whichever of the two
\* effects asked for it.
C10_DebouncedRequest ==
    [][/\ Len(inflight') > Len(inflight) =>
              /\ quiet >= 400
              /\ Len(inflight') = Len(inflight) + 1
              /\ inflight'[Len(inflight')].query = searchValue
       /\ issued' <= 1
      ]_vars

\* After a burst that ended on "b", one request for "b" is awaited and the
\* timer is spent.
C10_Witness ==
    /\ searchValue = <<"b">>
    /\ showSearch
    /\ inflight = << [query |-> <<"b">>, network |-> TRUE] >>
    /\ issued = 1
    /\ ~debounced.armed
    /\ searchLoading

\* The calls awaited once call i has settled.
WithoutCall(calls, i) == [j \in 1..(Len(calls) - 1) |-> IF j < i THEN calls[j] ELSE calls[j + 1]]

\* C11: whenever an awaited searchTicker call settles, its response is
\* applied to searchResults (its matches, or the empty list), whichever call
\* it is and whatever the text now is: nothing sequences or drops responses.
C11_ResponsesAppliedInArrivalOrder ==
    [][Len(inflight') < Len(inflight) =>
           \E i \in 1..Len(inflight) :
               /\ inflight' = WithoutCall(inflight, i)
               /\ searchResults' \in {bestMatches(inflight[i].query), <<>>}
      ]_vars

\* The text is "b", the timer has fired for it and nothing is awaited any
\* more, yet the list shows the matches of "a": the request for "a" was
\* issued first and answered last.
C11_Witness ==
    /\ searchValue = <<"b">>
    /\ showSearch
    /\ ~debounced.armed
    /\ inflight = <<>>
    /\ searchResults = bestMatches(<<"a">>)
    /\ ~searchLoading

\* C12: a run of the search with a non-empty query ends with searchLoading
\* false and in one of three outcomes: the response's matches with no error,
\* an empty list with no error, or an empty list with 'Search failed.'; and
\* the start of a run clears the error.
C12_ThreeOutcomes ==
    [][/\ Len(inflight') < Len(inflight) =>
              \E i \in 1..Len(inflight) :
                  /\ inflight' = WithoutCall(inflight, i)
                  /\ ~searchLoading'
                  /\ \/ searchResults' = bestMatches(inflight[i].query) /\ searchError' = ""
                     \/ searchResults' = <<>> /\ searchError' = ""
                     \/ searchResults' = <<>> /\ searchError' = SearchFailedMessage
       /\ Len(inflight') > Len(inflight) => searchError' = ""
      ]_vars

\* C21: searchLoading is true exactly while at least one searchTicker call
\* is awaited; when one of two overlapping calls settles, the indicator
\* stays on for the other.
C21_LoadingWhileInflight == searchLoading <=> (inflight # <<>>)

\* C23: the backdrop (closeSearch) sets showSearch to false and keeps the
\* text; the header icon closes and clears the text when the search is
\* shown, else opens and keeps the text; a chosen result clears the text and
\* the results and closes; and opening with a text kept from a backdrop
\* close starts the debounced search for that text again.
C23_SearchContextOperations ==
    [][/\ PressBackdrop => (~showSearch' /\ searchValue' = searchValue)
       /\ (PressHeaderIcon /\ showSearch) => (~showSearch' /\ searchValue' = <<>>)
       /\ (PressHeaderIcon /\ ~showSearch) =>
              /\ showSearch'
              /\ searchValue' = searchValue
              /\ searchValue # <<>> =>
                     debounced' = [armed |-> TRUE, args |-> searchValue, elapsed |-> 0]
       /\ PressResult => (searchValue' = <<>> /\ searchResults' = <<>> /\ ~showSearch')
       /\ (showSearch /\ ~showSearch') => searchValue' \in {searchValue, <<>>}
      ]_vars

\* The search was closed by the backdrop with "a" in the box and has just
\* been opened again: the text has not changed for 400 ms, and the timer
\* runs afresh for "a".
C23_Witness ==
    /\ showSearch
    /\ searchValue = <<"a">>
    /\ quiet = 400
    /\ debounced = [armed |-> TRUE, args |-> <<"a">>, elapsed |-> 0]

(***************************************************************************)
(* Claims about the watchlist screen (SpecWatch, SpecWatchShared).         *)
(***************************************************************************)
\* The item holds a group-to-symbols object.
WellFormed(item) == itemTruthy(item) /\ item.parses /\ item.json.tag = "object"

Without(map, group) == [g \in DOMAIN map \ {group} |-> map[g]]

\* C13: when loadGroups has read an absent or malformed item, the in-memory
\* mapping is the empty mapping and the screen shows the empty state (no
\* error is raised).
C13_MalformedLoadsEmpty ==
    [][(loadPc = "reading" /\ loadPc' # "reading" /\ ~WellFormed(stored)) =>
           /\ groups' = JsObject(EmptyMapping)
           /\ screen(groups', selectedGroup') = "empty"
      ]_vars

\* C14: the write of a confirmed deletion of g removes g and nothing else
\* from the persisted mapping; its completion removes g and nothing else
\* from the in-memory mapping and sets the selection to null exactly when g
\* was selected; Cancel changes neither mapping.
C14_DeleteGroupOnly ==
    [][/\ \A i \in 1..Len(pending) :
              (/\ groups.tag = "object"
               /\ pending[i].pc = "writing"
               /\ pending' = [pending EXCEPT ![i].pc = "written"]) =>
                  loadAll(stored') = Without(loadAll(stored), pending[i].group)
       /\ \A i \in 1..Len(pending) :
              (/\ groups.tag = "object"
               /\ pending[i].pc = "written"
               /\ pending' = WithoutDeletion(pending, i)) =>
                  /\ spread(groups') = Without(spread(groups), pending[i].group)
                  /\ selectedGroup' = IF selectedGroup = pending[i].group THEN Null ELSE selectedGroup
       /\ (alert.open /\ ~alert'.open /\ pending' = pending) =>
              /\ groups' = groups
              /\ stored' = stored
      ]_vars

\* C15: the in-memory mapping is replaced only by a deletion whose own write
\* has landed, every confirmation starts its own write at once, and when a
\* deletion completes the persisted item is the mapping it wrote; so in no
\* state is a group gone from memory and present in the persisted mapping.
C15_WriteBeforeSetGroups ==
    /\ [][/\ (loadPc # "reading" /\ groups' # groups) =>
                 \E i \in 1..Len(pending) :
                     /\ pending[i].pc = "written"
                     /\ groups' = pending[i].updated
                     /\ pending' = WithoutDeletion(pending, i)
          /\ (alert.open /\ ~alert'.open /\ pending' # pending) =>
                 /\ pending' = Append(pending, Deletion(alert))
                 /\ pending'[Len(pending')].pc = "writing"
          /\ \A i \in 1..Len(pending) :
                 (pending[i].pc = "written" /\ pending' = WithoutDeletion(pending, i)) =>
                     stored' = JSONstringify(pending[i].updated)
         ]_vars
    /\ []((loadPc = "done" /\ groups.tag = "object") =>
              DOMAIN loadAll(stored) \subseteq objectKeys(groups))

\* C16: whenever the screen has loaded a well-formed item and no deletion
\* is running, the in-memory mapping equals the persisted one; and the
\* write of a deletion removes only its group from the persisted mapping.
C16_MemoryEqualsPersisted ==
    /\ []((loadPc = "done" /\ pending = <<>> /\ WellFormed(stored)) =>
              spread(groups) = loadAll(stored))
    /\ [][\A i \in 1..Len(pending) :
              (pending[i].pc = "writing" /\ pending' = [pending EXCEPT ![i].pc = "written"]) =>
                  \A g \in DOMAIN loadAll(stored) \ {pending[i].group} :
                      g \in DOMAIN loadAll(stored') /\ loadAll(stored')[g] = loadAll(stored)[g]
         ]_vars

\* C17: when the write of a confirmed deletion fails, the failure is
\* reported (not dropped) and the in-memory mapping and the selection stay
\* as they were.
C17_WriteFailurePropagates ==
    [][\A i \in 1..Len(pending) :
           (/\ groups.tag = "object"
            /\ pending[i].pc = "writing"
            /\ pending' = WithoutDeletion(pending, i)) =>
               /\ rejection' # "dropped"
               /\ groups' = groups
               /\ selectedGroup' = selectedGroup
      ]_vars

\* C22: once no run of loadDetails is awaited, selectedStocks holds one
\* entry per symbol of the selected group, in the group's order: a run
\* started for an earlier selection or an earlier mapping never has the
\* last word.
C22_StocksOfSelectedGroup ==
    (loads = <<>> /\ selectedGroup # Null /\ groups.tag = "object") =>
        LET symbols == IF selectedGroup \in objectKeys(groups) THEN spread(groups)[selectedGroup] ELSE <<>>
        IN /\ Len(selectedStocks) = Len(symbols)
           /\ \A k \in 1..Len(symbols) : selectedStocks[k].symbol = symbols[k]

(***************************************************************************)
(* Claims about StockLogo (SpecLogo).                                      *)
(***************************************************************************)
PlaceholderShown == logoSrc(shown, idx, failed) = PlaceholderAsset

C20_LoadAlwaysFinishes ==
    /\ <>(hPc = "done" /\ ~loading)
    /\ [](hPc = "done" => ~loading)
    /\ [](error # "" => (gainers = <<>> /\ losers = <<>>))
    /\ []((hPc = "done" /\ go[GainersKey].pc = "threw") =>
              (error = "Failed to load data. Please try again." /\ gainers = <<>> /\ losers = <<>>))
    /\ []((hPc \in {"gainersImages", "losersImages", "done"} /\ go[GainersKey].pc = "returned") =>
              error = "")

\* A load with nothing cached whose fetch failed: the message is shown, the
\* lists are empty and the spinner is gone.
C20_Witness ==
    /\ hPc = "done"
    /\ go[GainersKey].pc = "threw"
    /\ ~cache[GainersKey].present
    /\ error = "Failed to load data. Please try again."
    /\ gainers = <<>>
    /\ losers = <<>>
    /\ ~loading

====
